---------------------------- MODULE Spec2Model ----------------------------
(***************************************************************************)
(* Complex-number linear algebra of quantum_computing_studies:             *)
(* utils/complex_number.rs, utils/complex_vectors.rs,                      *)
(* utils/complex_vector.rs and utils/complex_matrix.rs.                    *)
(*                                                                         *)
(* f64 components are modelled by integers (every integer of the explored  *)
(* range is an exact f64, and +, -, * on them are exact); the quotient of  *)
(* a division is kept as an exact fraction.  usize values are naturals:    *)
(* every product of dimensions explored here is far below usize::MAX, so   *)
(* no usize multiplication wraps.  A panic is modelled by the status of    *)
(* the returned record, named after the condition the panic stands for.    *)
(***************************************************************************)
EXTENDS Integers, Sequences, FiniteSets, TLC

VARIABLES matrix, call, steps

vars == <<matrix, call, steps>>

(***************************************************************************)
(* Bounds of the explored inputs.                                          *)
(***************************************************************************)
MaxCoord == 2
MaxDim == 2
MaxSeed == 2
MaxSteps == 2

Coords == (0 - MaxCoord)..MaxCoord
Dims == 0..MaxDim
Lens == 0..(MaxDim * MaxDim)
Seeds == 0..MaxSeed

(***************************************************************************)
(* utils/complex_number.rs                                                 *)
(***************************************************************************)
Complex(r, i) == [real |-> r, imaginary |-> i]

Scalars == {Complex(r, i) : r \in Coords, i \in Coords}

Ok(v) == [status |-> "ok", value |-> v]
Panic(condition) == [status |-> condition]

\* Faulty variant: the real part is negated instead of the imaginary part.
Complex_conjugate_real(c) == Complex(0 - c.real, c.imaginary)

Complex_conjugate(c) == Complex(c.real, 0 - c.imaginary)

\* Faulty variant: the imaginary part starts from the real part of self.
Complex_add_real_twice(self, other) ==
    Complex(self.real + other.real, self.real + other.imaginary)

Complex_add(self, other) ==
    Complex(self.real + other.real, self.imaginary + other.imaginary)

\* Faulty variant: the real part adds the product of the imaginary parts.
Complex_mul_plus(self, other) ==
    LET real_part == (self.real * other.real) + (self.imaginary * other.imaginary)
        imaginary_part == (self.real * other.imaginary) + (self.imaginary * other.real)
    IN  Complex(real_part, imaginary_part)

\* Faulty variant: the imaginary part subtracts its second product.
Complex_mul_minus(self, other) ==
    LET real_part == (self.real * other.real) - (self.imaginary * other.imaginary)
        imaginary_part == (self.real * other.imaginary) - (self.imaginary * other.real)
    IN  Complex(real_part, imaginary_part)

Complex_mul(self, other) ==
    LET real_part == (self.real * other.real) - (self.imaginary * other.imaginary)
        imaginary_part == (self.real * other.imaginary) + (self.imaginary * other.real)
    IN  Complex(real_part, imaginary_part)

\* Faulty variant: only the real part is negated.
Complex_neg_real_only(self) == Complex(0 - self.real, self.imaginary)

Complex_neg(self) == Complex(0 - self.real, 0 - self.imaginary)

\* Faulty variant: the fold leaves out the last item.
RECURSIVE Complex_sum_skip_last(_)
Complex_sum_skip_last(iter) ==
    IF Len(iter) <= 1 THEN Complex(0, 0)
    ELSE Complex_add(Complex_sum_skip_last(SubSeq(iter, 1, Len(iter) - 1)),
                     iter[Len(iter) - 1])

\* iter.fold(Complex::new(0.0, 0.0), |acc, x| acc + x)
RECURSIVE Complex_sum(_)
Complex_sum(iter) ==
    IF Len(iter) = 0 THEN Complex(0, 0)
    ELSE Complex_add(Complex_sum(SubSeq(iter, 1, Len(iter) - 1)), iter[Len(iter)])

\* f64::sqrt: NaN below 0; otherwise the root, kept by its square.
NaN == [nan |-> TRUE]
f64_sqrt(x) == IF x < 0 THEN NaN ELSE [sqrt_of |-> x]

Complex_sub(self, other) == Complex_add(self, Complex_neg(other))

\* An exact quotient num / den of two f64 values.
Fraction(num, den) == [num |-> num, den |-> den]

\* Exact arithmetic on quotients: q * n, q - r and q + r.
FractionTimes(q, n) == Fraction(q.num * n, q.den)
FractionMinus(q, r) == Fraction((q.num * r.den) - (r.num * q.den), q.den * r.den)
FractionPlus(q, r) == Fraction((q.num * r.den) + (r.num * q.den), q.den * r.den)

\* Mul for Complex, on a left operand whose components are quotients.
Complex_mul_quotient(self, other) ==
    LET real_part == FractionMinus(FractionTimes(self.real, other.real),
                                   FractionTimes(self.imaginary, other.imaginary))
        imaginary_part == FractionPlus(FractionTimes(self.real, other.imaginary),
                                       FractionTimes(self.imaginary, other.real))
    IN  Complex(real_part, imaginary_part)

\* Faulty variant: the imaginary part of the quotient has the wrong sign.
Complex_div_sign(self, other) ==
    IF other.real = 0 /\ other.imaginary = 0
    THEN Panic("DivisionByZero")
    ELSE Ok(Complex(Fraction((self.real * other.real) + (self.imaginary * other.imaginary),
                             (other.real * other.real) + (other.imaginary * other.imaginary)),
                    Fraction((self.real * other.imaginary) - (other.real * self.imaginary),
                             (other.real * other.real) + (other.imaginary * other.imaginary))))

\* Faulty variant: a divisor with one zero component is refused too.
Complex_div_or(self, other) ==
    IF other.real = 0 \/ other.imaginary = 0
    THEN Panic("DivisionByZero")
    ELSE Ok(Complex(Fraction((self.real * other.real) + (self.imaginary * other.imaginary),
                             (other.real * other.real) + (other.imaginary * other.imaginary)),
                    Fraction((other.real * self.imaginary) - (self.real * other.imaginary),
                             (other.real * other.real) + (other.imaginary * other.imaginary))))

Complex_div(self, other) ==
    IF other.real = 0 /\ other.imaginary = 0
    THEN Panic("DivisionByZero")
    ELSE LET r1 == self.real
             i1 == self.imaginary
             r2 == other.real
             i2 == other.imaginary
             real_part == Fraction((r1 * r2) + (i1 * i2), (r2 * r2) + (i2 * i2))
             imaginary_part == Fraction((r2 * i1) - (r1 * i2), (r2 * r2) + (i2 * i2))
         IN  Ok(Complex(real_part, imaginary_part))

(***************************************************************************)
(* The scalar layer: two scalars are drawn, then one operation is called   *)
(* on them.  call records the operation, its operands and what it returned.*)
(***************************************************************************)
NoMatrix == [none |-> TRUE]

InitNumber ==
    /\ matrix = NoMatrix
    /\ steps = 0
    /\ \E a \in Scalars, b \in Scalars : call = [op |-> "none", a |-> a, b |-> b]

CallAdd ==
    /\ call.op = "none"
    /\ call' = [call EXCEPT !.op = "Complex_add"] @@
               [result |-> Ok(Complex_add(call.a, call.b))]
    /\ UNCHANGED <<matrix, steps>>

CallMul ==
    /\ call.op = "none"
    /\ call' = [call EXCEPT !.op = "Complex_mul"] @@
               [result |-> Ok(Complex_mul(call.a, call.b))]
    /\ UNCHANGED <<matrix, steps>>

CallDiv ==
    /\ call.op = "none"
    /\ call' = [call EXCEPT !.op = "Complex_div"] @@
               [result |-> Complex_div(call.a, call.b)]
    /\ UNCHANGED <<matrix, steps>>

\* (a / b) * b
CallDivMul ==
    /\ call.op = "none"
    /\ LET quotient == Complex_div(call.a, call.b)
       IN  call' = [call EXCEPT !.op = "div_mul"] @@
                   [quotient |-> quotient,
                    result |-> IF quotient.status # "ok" THEN quotient
                               ELSE Ok(Complex_mul_quotient(quotient.value, call.b))]
    /\ UNCHANGED <<matrix, steps>>

NextNumber == CallAdd \/ CallMul \/ CallDiv \/ CallDivMul

SpecNumber == InitNumber /\ [][NextNumber]_vars

(***************************************************************************)
(* Input data of the vector and matrix layers: for each seed and length    *)
(* one sequence of pairwise different scalars, so that a misplaced element *)
(* shows in the result.                                                    *)
(***************************************************************************)
Elements(seed, n) == [i \in 1..n |-> Complex(i - 1 - seed, (seed * i) - 1)]

Vectors == {Elements(seed, n) : seed \in Seeds, n \in Lens}

ShortVectors == {Elements(seed, n) : seed \in Seeds, n \in Dims}

ScalarInputs == {Complex(seed - 1, seed) : seed \in Seeds}

Min(a, b) == IF a <= b THEN a ELSE b

\* lhs.iter().zip(rhs.iter()).map(|(&x,&y)| x + y).collect(): zip stops at
\* the end of the shorter operand.
ZipAdd(lhs, rhs) ==
    [i \in 1..Min(Len(lhs), Len(rhs)) |-> Complex_add(lhs[i], rhs[i])]

(***************************************************************************)
(* utils/complex_vectors.rs: ComplexVector(pub Vec<Complex>)               *)
(***************************************************************************)
\* Faulty variant: no length check, the sum is cut to the shorter operand.
add_vectors_unchecked(lhs, rhs) == Ok(ZipAdd(lhs, rhs))

add_vectors(lhs, rhs) ==
    IF Len(lhs) # Len(rhs)
    THEN Panic("DimensionMismatch")
    ELSE Ok(ZipAdd(lhs, rhs))

product_vector_scalar(vector, scalar) ==
    [i \in 1..Len(vector) |-> Complex_mul(vector[i], scalar)]

inverse_vector(vector) == [i \in 1..Len(vector) |-> Complex_neg(vector[i])]

(***************************************************************************)
(* utils/complex_vector.rs: ComplexVector<const N: usize>(pub [Complex; N])*)
(* Both operands have the length N of the type.                            *)
(***************************************************************************)
add_vectors_N(N, lhs, rhs) == [i \in 1..N |-> Complex_add(lhs[i], rhs[i])]

product_vector_scalar_N(N, vector, scalar) ==
    [i \in 1..N |-> Complex_mul(vector[i], scalar)]

inverse_vector_N(N, vector) == [i \in 1..N |-> Complex_neg(vector[i])]

\* Faulty variant: the items of v1 are not conjugated.
inner_product_vector_plain(N, v1, v2) ==
    Complex_sum([i \in 1..N |-> Complex_mul(v1[i], v2[i])])

\* v1.iter().zip(v2.iter()).map(|(&x1, &x2)| x1.conjugate() * x2).sum()
inner_product_vector(N, v1, v2) ==
    Complex_sum([i \in 1..N |-> Complex_mul(Complex_conjugate(v1[i]), v2[i])])

\* Faulty variant: the right operand is not negated.
sub_N_unnegated(N, self, other) == add_vectors_N(N, self, other)

\* self + -other
sub_N(N, self, other) == add_vectors_N(N, self, inverse_vector_N(N, other))

norm(N, self) == f64_sqrt(inner_product_vector(N, self, self).real)

distance_to(N, self, rhs) == norm(N, sub_N(N, self, rhs))

\* The second operand is also drawn with its items in reverse order.
Reversed(v) == [i \in 1..Len(v) |-> v[Len(v) + 1 - i]]

SecondVectors == Vectors \cup {Reversed(v) : v \in Vectors}

InitVector ==
    /\ matrix = NoMatrix
    /\ steps = 0
    /\ \E v1 \in Vectors, v2 \in SecondVectors, c \in ScalarInputs :
          call = [op |-> "none", v1 |-> v1, v2 |-> v2, c |-> c]

CallAddVectors ==
    /\ call.op = "none"
    /\ call' = [call EXCEPT !.op = "add_vectors"] @@
               [result |-> add_vectors(call.v1, call.v2)]
    /\ UNCHANGED <<matrix, steps>>

\* The fixed-size variant type-checks only for operands of one length N.
CallAddVectorsN ==
    /\ call.op = "none"
    /\ Len(call.v1) = Len(call.v2)
    /\ call' = [call EXCEPT !.op = "add_vectors_N"] @@
               [result |-> Ok(add_vectors_N(Len(call.v1), call.v1, call.v2))]
    /\ UNCHANGED <<matrix, steps>>

\* v1 * v2 and v2 * v1, v1 * v1 and its norm, (v1 * c) * v2 and v1 * (v2 * c)
CallInnerProduct ==
    /\ call.op = "none"
    /\ Len(call.v1) = Len(call.v2)
    /\ LET N == Len(call.v1)
       IN  call' = [call EXCEPT !.op = "inner_product"] @@
                   [result |-> inner_product_vector(N, call.v1, call.v2),
                    swapped |-> inner_product_vector(N, call.v2, call.v1),
                    self |-> inner_product_vector(N, call.v1, call.v1),
                    norm |-> norm(N, call.v1),
                    scaled_first |->
                        inner_product_vector(
                            N, product_vector_scalar_N(N, call.v1, call.c), call.v2),
                    scaled_second |->
                        inner_product_vector(
                            N, call.v1, product_vector_scalar_N(N, call.v2, call.c))]
    /\ UNCHANGED <<matrix, steps>>

\* v1.distance_to(v2) and v2.distance_to(v1)
CallDistanceTo ==
    /\ call.op = "none"
    /\ Len(call.v1) = Len(call.v2)
    /\ LET N == Len(call.v1)
       IN  call' = [call EXCEPT !.op = "distance_to"] @@
                   [result |-> distance_to(N, call.v1, call.v2),
                    swapped |-> distance_to(N, call.v2, call.v1)]
    /\ UNCHANGED <<matrix, steps>>

NextVector ==
    CallAddVectors \/ CallAddVectorsN \/ CallInnerProduct \/ CallDistanceTo

SpecVector == InitVector /\ [][NextVector]_vars

(***************************************************************************)
(* utils/complex_matrix.rs                                                 *)
(***************************************************************************)
ComplexMatrix(elements, rows, columns) ==
    [elements |-> elements, rows |-> rows, columns |-> columns]

\* Faulty variant: only too few elements are refused.
ComplexMatrix_new_lt(vector, rows, columns) ==
    IF Len(vector) < (rows * columns)
    THEN Panic("ShapeMismatch")
    ELSE Ok(ComplexMatrix(vector, rows, columns))

\* Faulty variant: rows and columns are stored the wrong way round.
ComplexMatrix_new_swapped(vector, rows, columns) ==
    IF Len(vector) # (rows * columns)
    THEN Panic("ShapeMismatch")
    ELSE Ok(ComplexMatrix(vector, columns, rows))

ComplexMatrix_new(vector, rows, columns) ==
    IF Len(vector) # (rows * columns)
    THEN Panic("ShapeMismatch")
    ELSE Ok(ComplexMatrix(vector, rows, columns))

dimensions(self) == <<self.rows, self.columns>>

\* Faulty variant: the vector's length is taken for both dimensions.
ComplexMatrix_from_square(rhs) == ComplexMatrix(rhs, Len(rhs), Len(rhs))

\* Faulty variant: the vector becomes a row (1 x N) instead of a column.
ComplexMatrix_from_row(rhs) == ComplexMatrix(rhs, 1, Len(rhs))

ComplexMatrix_from(rhs) ==
    LET rows == Len(rhs)
    IN  ComplexMatrix(rhs, rows, 1)

\* Faulty variant: the row stride is the number of rows.
offset_by_rows(self, row, column) == (row * self.rows) + column

\* (row * &self.columns) + column, the position in the Vec (from 0).
offset(self, row, column) == (row * self.columns) + column

\* Indexing the Vec panics by itself at a position >= len.
index(self, row, column) ==
    IF row >= self.rows \/ column >= self.columns
    THEN Panic("OutOfRange")
    ELSE IF offset(self, row, column) >= Len(self.elements)
         THEN Panic("VecIndexOutOfBounds")
         ELSE [status |-> "ok",
               value |-> self.elements[offset(self, row, column) + 1],
               offset |-> offset(self, row, column)]

\* Faulty variant: the range test lets row = rows and column = columns pass.
index_mut_gt(self, row, column, value) ==
    IF row > self.rows \/ column > self.columns
    THEN Panic("OutOfRange")
    ELSE IF offset(self, row, column) >= Len(self.elements)
         THEN Panic("VecIndexOutOfBounds")
         ELSE [status |-> "ok",
               value |-> [self EXCEPT
                            !.elements[offset(self, row, column) + 1] = value],
               offset |-> offset(self, row, column)]

\* self[[row, column]] = value: the matrix after the write.
index_mut(self, row, column, value) ==
    IF row >= self.rows \/ column >= self.columns
    THEN Panic("OutOfRange")
    ELSE IF offset(self, row, column) >= Len(self.elements)
         THEN Panic("VecIndexOutOfBounds")
         ELSE [status |-> "ok",
               value |-> [self EXCEPT
                            !.elements[offset(self, row, column) + 1] = value],
               offset |-> offset(self, row, column)]

\* Faulty variant: the operands are compared by element count only.
add_matrices_by_len(matrix1, matrix2) ==
    IF Len(matrix1.elements) # Len(matrix2.elements)
    THEN Panic("ShapeMismatch")
    ELSE Ok(ComplexMatrix(ZipAdd(matrix1.elements, matrix2.elements),
                          matrix1.rows, matrix1.columns))

add_matrices(matrix1, matrix2) ==
    IF dimensions(matrix1) # dimensions(matrix2)
    THEN Panic("ShapeMismatch")
    ELSE LET result_vector == ZipAdd(matrix1.elements, matrix2.elements)
         IN  Ok(ComplexMatrix(result_vector, matrix1.rows, matrix1.columns))

product_matrix_scalar(m, scalar) ==
    LET new_elements ==
            [i \in 1..Len(m.elements) |-> Complex_mul(m.elements[i], scalar)]
    IN  ComplexMatrix(new_elements, m.rows, m.columns)

inverse_matrix(m) ==
    ComplexMatrix([i \in 1..Len(m.elements) |-> Complex_neg(m.elements[i])],
                  m.rows, m.columns)

\* Faulty variant: the right-hand operand is read transposed, m2[[k,h]].
RECURSIVE SumLoop_transposed(_, _, _, _, _, _)
SumLoop_transposed(m1, m2, j, k, h, sum) ==
    IF h >= m1.columns
    THEN Ok(sum)
    ELSE LET x == index(m1, j, h)
             y == index(m2, k, h)
         IN  IF x.status # "ok" THEN Panic(x.status)
             ELSE IF y.status # "ok" THEN Panic(y.status)
             ELSE SumLoop_transposed(m1, m2, j, k, h + 1,
                                     Complex_add(sum, Complex_mul(x.value, y.value)))

\* for h in 0..m1.columns { sum += m1[[j,h]] * m2[[h,k]] }
RECURSIVE SumLoop(_, _, _, _, _, _)
SumLoop(m1, m2, j, k, h, sum) ==
    IF h >= m1.columns
    THEN Ok(sum)
    ELSE LET x == index(m1, j, h)
             y == index(m2, h, k)
         IN  IF x.status # "ok" THEN Panic(x.status)
             ELSE IF y.status # "ok" THEN Panic(y.status)
             ELSE SumLoop(m1, m2, j, k, h + 1,
                          Complex_add(sum, Complex_mul(x.value, y.value)))

\* Faulty variant: every sum starts from (1,0) instead of (0,0).
RECURSIVE CellLoop_from_one(_, _, _, _, _)
CellLoop_from_one(m1, m2, m3, j, k) ==
    IF j >= m3.rows THEN Ok(m3)
    ELSE IF k >= m3.columns THEN CellLoop_from_one(m1, m2, m3, j + 1, 0)
    ELSE LET sum == SumLoop(m1, m2, j, k, 0, Complex(1, 0))
         IN  IF sum.status # "ok" THEN sum
             ELSE LET written == index_mut(m3, j, k, sum.value)
                  IN  IF written.status # "ok" THEN Panic(written.status)
                      ELSE CellLoop_from_one(m1, m2, written.value, j, k + 1)

\* for j in 0..m3.rows { for k in 0..m3.columns { ...; m3[[j,k]] = sum; } }
RECURSIVE CellLoop(_, _, _, _, _)
CellLoop(m1, m2, m3, j, k) ==
    IF j >= m3.rows THEN Ok(m3)
    ELSE IF k >= m3.columns THEN CellLoop(m1, m2, m3, j + 1, 0)
    ELSE LET sum == SumLoop(m1, m2, j, k, 0, Complex(0, 0))
         IN  IF sum.status # "ok" THEN sum
             ELSE LET written == index_mut(m3, j, k, sum.value)
                  IN  IF written.status # "ok" THEN Panic(written.status)
                      ELSE CellLoop(m1, m2, written.value, j, k + 1)

\* Faulty variant: the operands are compared by element count only.
product_matrices_by_len(m1, m2) ==
    IF Len(m1.elements) # Len(m2.elements)
    THEN Panic("ShapeMismatch")
    ELSE LET zeros == [i \in 1..(m1.rows * m2.columns) |-> Complex(0, 0)]
             m3 == ComplexMatrix_new(zeros, m1.rows, m2.columns)
         IN  IF m3.status # "ok" THEN m3
             ELSE CellLoop(m1, m2, m3.value, 0, 0)

product_matrices(m1, m2) ==
    IF m1.columns # m2.rows
    THEN Panic("ShapeMismatch")
    ELSE LET zeros == [i \in 1..(m1.rows * m2.columns) |-> Complex(0, 0)]
             m3 == ComplexMatrix_new(zeros, m1.rows, m2.columns)
         IN  IF m3.status # "ok" THEN m3
             ELSE CellLoop(m1, m2, m3.value, 0, 0)

\* Faulty variant: the vector is multiplied as a row (1 x N).
product_matrix_vector_as_row(m, vector) ==
    LET vec_to_mat == ComplexMatrix(vector, 1, Len(vector))
        product == product_matrices(m, vec_to_mat)
    IN  IF product.status # "ok" THEN product
        ELSE Ok(product.value.elements)

\* The product's elements, read back as a ComplexVector.
product_matrix_vector(m, vector) ==
    LET vec_to_mat == ComplexMatrix_from(vector)
        product == product_matrices(m, vec_to_mat)
    IN  IF product.status # "ok" THEN product
        ELSE Ok(product.value.elements)

(***************************************************************************)
(* The matrix layer as a machine.  matrix is the ComplexMatrix the caller  *)
(* holds (NoMatrix before the first construction); call records the last   *)
(* operation, its operands and what it returned.  The caller constructs a  *)
(* matrix when it holds none.  The operators take self by value: the       *)
(* operand is gone after the call, and the caller holds the result, or     *)
(* nothing after a panic.  Indexing borrows the matrix.  A panic ends the   *)
(* run: no operation follows it.                                           *)
(***************************************************************************)
MatrixInputs ==
    {ComplexMatrix_new(Elements(seed, rows * columns), rows, columns).value :
        seed \in Seeds, rows \in Dims, columns \in Dims}

Held(result) == IF result.status = "ok" THEN result.value ELSE NoMatrix

Running ==
    /\ steps < MaxSteps
    /\ IF call.op = "none" THEN TRUE ELSE call.result.status = "ok"

Init ==
    /\ matrix = NoMatrix
    /\ call = [op |-> "none"]
    /\ steps = 0

New ==
    /\ Running
    /\ matrix = NoMatrix
    /\ \E vector \in Vectors, rows \in Dims, columns \in Dims :
          LET result == ComplexMatrix_new(vector, rows, columns)
          IN  /\ call' = [op |-> "new", vector |-> vector, rows |-> rows,
                          columns |-> columns, result |-> result]
              /\ matrix' = IF result.status = "ok" THEN result.value ELSE matrix
    /\ steps' = steps + 1

From ==
    /\ Running
    /\ matrix = NoMatrix
    /\ \E vector \in Vectors :
          /\ call' = [op |-> "from", vector |-> vector,
                      result |-> Ok(ComplexMatrix_from(vector))]
          /\ matrix' = ComplexMatrix_from(vector)
    /\ steps' = steps + 1

Add ==
    /\ Running
    /\ matrix # NoMatrix
    /\ \E rhs \in MatrixInputs :
          LET result == add_matrices(matrix, rhs)
          IN  /\ call' = [op |-> "add", self |-> matrix, rhs |-> rhs,
                          result |-> result]
              /\ matrix' = Held(result)
    /\ steps' = steps + 1

MulScalar ==
    /\ Running
    /\ matrix # NoMatrix
    /\ \E rhs \in ScalarInputs :
          LET result == Ok(product_matrix_scalar(matrix, rhs))
          IN  /\ call' = [op |-> "mul_scalar", self |-> matrix, rhs |-> rhs,
                          result |-> result]
              /\ matrix' = Held(result)
    /\ steps' = steps + 1

Neg ==
    /\ Running
    /\ matrix # NoMatrix
    /\ call' = [op |-> "neg", self |-> matrix,
                result |-> Ok(inverse_matrix(matrix))]
    /\ matrix' = inverse_matrix(matrix)
    /\ steps' = steps + 1

Mul ==
    /\ Running
    /\ matrix # NoMatrix
    /\ \E rhs \in MatrixInputs :
          LET result == product_matrices(matrix, rhs)
          IN  /\ call' = [op |-> "mul", self |-> matrix, rhs |-> rhs,
                          result |-> result]
              /\ matrix' = Held(result)
    /\ steps' = steps + 1

\* product_matrix_vector returns a ComplexVector; the matrix is consumed.
MulVector ==
    /\ Running
    /\ matrix # NoMatrix
    /\ \E vector \in ShortVectors :
          /\ call' = [op |-> "product_matrix_vector", self |-> matrix,
                      vector |-> vector,
                      result |-> product_matrix_vector(matrix, vector)]
          /\ matrix' = NoMatrix
    /\ steps' = steps + 1

Index ==
    /\ Running
    /\ matrix # NoMatrix
    /\ \E row \in Dims, column \in Dims :
          call' = [op |-> "index", self |-> matrix, row |-> row,
                   column |-> column, result |-> index(matrix, row, column)]
    /\ matrix' = matrix
    /\ steps' = steps + 1

IndexMut ==
    /\ Running
    /\ matrix # NoMatrix
    /\ \E row \in Dims, column \in Dims, value \in ScalarInputs :
          LET result == index_mut(matrix, row, column, value)
          IN  /\ call' = [op |-> "index_mut", self |-> matrix, row |-> row,
                          column |-> column, value |-> value, result |-> result]
              /\ matrix' = IF result.status = "ok" THEN result.value ELSE matrix
    /\ steps' = steps + 1

Next ==
    \/ New \/ From \/ Add \/ MulScalar \/ Neg \/ Mul \/ MulVector
    \/ Index \/ IndexMut

Spec == Init /\ [][Next]_vars

\* ------------------------------------------------------------------
\* The algebraic laws: one operand of one of the three types is drawn,
\* one expression over it is evaluated, and the run stops.
\* ------------------------------------------------------------------
Kinds == {"Complex", "ComplexVector", "ComplexMatrix"}

OperandsOf(kind) ==
    CASE kind = "Complex" -> Scalars
      [] kind = "ComplexVector" -> Vectors
      [] kind = "ComplexMatrix" -> MatrixInputs

\* The zero of the shape of x, as a caller builds it.
ZeroOf(kind, x) ==
    CASE kind = "Complex" -> Complex(0, 0)
      [] kind = "ComplexVector" -> [i \in 1..Len(x) |-> Complex(0, 0)]
      [] kind = "ComplexMatrix" ->
            ComplexMatrix_new([i \in 1..(x.rows * x.columns) |-> Complex(0, 0)],
                              x.rows, x.columns).value

\* lhs + rhs
AddOf(kind, lhs, rhs) ==
    CASE kind = "Complex" -> Ok(Complex_add(lhs, rhs))
      [] kind = "ComplexVector" -> Ok(add_vectors_N(Len(lhs), lhs, rhs))
      [] kind = "ComplexMatrix" -> add_matrices(lhs, rhs)

\* lhs * scalar
ScaleOf(kind, lhs, scalar) ==
    CASE kind = "Complex" -> Complex_mul(lhs, scalar)
      [] kind = "ComplexVector" -> product_vector_scalar_N(Len(lhs), lhs, scalar)
      [] kind = "ComplexMatrix" -> product_matrix_scalar(lhs, scalar)

\* -x
NegOf(kind, x) ==
    CASE kind = "Complex" -> Complex_neg(x)
      [] kind = "ComplexVector" -> inverse_vector_N(Len(x), x)
      [] kind = "ComplexMatrix" -> inverse_matrix(x)

InitLaws ==
    /\ matrix = NoMatrix
    /\ steps = 0
    /\ \E kind \in Kinds : \E x \in OperandsOf(kind) :
          call = [op |-> "none", kind |-> kind, x |-> x]

\* x + zero
CallAddZero ==
    /\ call.op = "none"
    /\ call' = [call EXCEPT !.op = "add_zero"] @@
               [result |-> AddOf(call.kind, call.x, ZeroOf(call.kind, call.x))]
    /\ UNCHANGED <<matrix, steps>>

\* x * Complex::new(1.0, 0.0)
CallMulOne ==
    /\ call.op = "none"
    /\ call' = [call EXCEPT !.op = "mul_one"] @@
               [result |-> Ok(ScaleOf(call.kind, call.x, Complex(1, 0)))]
    /\ UNCHANGED <<matrix, steps>>

\* -x, -(-x), x + (-x), and for a number x * Complex::new(-1.0, 0.0)
CallNeg ==
    /\ call.op = "none"
    /\ LET negated == NegOf(call.kind, call.x)
       IN  call' = [call EXCEPT !.op = "neg"] @@
                   [negated |-> negated,
                    twice |-> NegOf(call.kind, negated),
                    sum |-> AddOf(call.kind, call.x, negated),
                    times_minus_one |->
                        IF call.kind = "Complex"
                        THEN Complex_mul(call.x, Complex(-1, 0))
                        ELSE negated]
    /\ UNCHANGED <<matrix, steps>>

NextLaws == CallAddZero \/ CallMulOne \/ CallNeg

SpecLaws == InitLaws /\ [][NextLaws]_vars

\* ------------------------------------------------------------------
\* Products of three matrices: the operands are drawn, the product is
\* taken in both groupings, and the run stops.
\* ------------------------------------------------------------------
InitProduct ==
    /\ matrix = NoMatrix
    /\ steps = 0
    /\ \E A \in MatrixInputs, B \in MatrixInputs, C \in MatrixInputs :
          call = [op |-> "none", A |-> A, B |-> B, C |-> C]

\* A panic of the inner product is the panic of the whole expression.
ThenMulLeft(inner, rhs) ==
    IF inner.status # "ok" THEN inner ELSE product_matrices(inner.value, rhs)

ThenMulRight(lhs, inner) ==
    IF inner.status # "ok" THEN inner ELSE product_matrices(lhs, inner.value)

\* (A * B) * C and A * (B * C)
CallMulMul ==
    /\ call.op = "none"
    /\ call' = [call EXCEPT !.op = "mul_mul"] @@
               [left |-> ThenMulLeft(product_matrices(call.A, call.B), call.C),
                right |-> ThenMulRight(call.A, product_matrices(call.B, call.C))]
    /\ UNCHANGED <<matrix, steps>>

NextProduct == CallMulMul

SpecProduct == InitProduct /\ [][NextProduct]_vars

\* ------------------------------------------------------------------
\* Display.  A String is the sequence of its characters.
\* ------------------------------------------------------------------
Digits == <<"0", "1", "2", "3", "4", "5", "6", "7", "8", "9">>

RECURSIVE Decimal(_)
Decimal(n) ==
    IF n < 10 THEN <<Digits[n + 1]>>
    ELSE Decimal(n \div 10) \o <<Digits[(n % 10) + 1]>>

\* Display for f64, of a whole number: no fraction digits, "-" below 0.
f64_fmt(x) == IF x < 0 THEN <<"-">> \o Decimal(0 - x) ELSE Decimal(x)

Complex_fmt(self) ==
    LET operator == IF self.imaginary >= 0 THEN <<"+">> ELSE <<>>
    IN  f64_fmt(self.real) \o operator \o f64_fmt(self.imaginary) \o <<"i">>

\* string[0..string.len() - 2].  The subtraction is on usize: below 2 it
\* panics where overflow checks are compiled in, and wraps to an end
\* beyond the string, which the slice refuses, where they are not.
SliceOffTwo(string, overflow_checks) ==
    IF Len(string) < 2
    THEN IF overflow_checks THEN Panic("SubtractOverflow")
         ELSE Panic("SliceEndOutOfRange")
    ELSE Ok(SubSeq(string, 1, Len(string) - 2))

\* iter().map(|c| c.to_string()).fold(String::new(), |acc, c| acc + &c + ", ")
RECURSIVE FoldDisplay(_)
FoldDisplay(items) ==
    IF Len(items) = 0 THEN <<>>
    ELSE FoldDisplay(SubSeq(items, 1, Len(items) - 1))
            \o Complex_fmt(items[Len(items)]) \o <<",", " ">>

ComplexVector_fmt(self, overflow_checks) ==
    LET result_string == FoldDisplay(self)
        slice == SliceOffTwo(result_string, overflow_checks)
    IN  IF slice.status # "ok" THEN slice
        ELSE Ok(<<"[">> \o slice.value \o <<"]">>)

\* for c in 0..self.columns { row_display.push_str("{}, ", self[[r, c]]) }
RECURSIVE RowDisplay(_, _, _, _)
RowDisplay(self, r, c, row_display) ==
    IF c >= self.columns THEN Ok(row_display)
    ELSE LET cell == index(self, r, c)
         IN  IF cell.status # "ok" THEN Panic(cell.status)
             ELSE RowDisplay(self, r, c + 1,
                             row_display \o Complex_fmt(cell.value) \o <<",", " ">>)

\* for r in 0..self.rows { ...; result_string.push_str("[{}],", row_display) }
RECURSIVE RowsDisplay(_, _, _, _)
RowsDisplay(self, r, result_string, overflow_checks) ==
    IF r >= self.rows THEN Ok(result_string)
    ELSE LET row_display == RowDisplay(self, r, 0, <<>>)
         IN  IF row_display.status # "ok" THEN row_display
             ELSE LET slice == SliceOffTwo(row_display.value, overflow_checks)
                  IN  IF slice.status # "ok" THEN slice
                      ELSE RowsDisplay(self, r + 1,
                                       result_string \o <<"[">> \o slice.value
                                           \o <<"]", ",">>,
                                       overflow_checks)

\* String::pop: the last character is removed, if there is one.
Pop(string) ==
    IF Len(string) = 0 THEN string ELSE SubSeq(string, 1, Len(string) - 1)

ComplexMatrix_fmt(self, overflow_checks) ==
    LET result_string == RowsDisplay(self, 0, <<>>, overflow_checks)
    IN  IF result_string.status # "ok" THEN result_string
        ELSE Ok(<<"[">> \o Pop(result_string.value) \o <<"]">>)

\* The value to render, and whether the build checks integer overflow.
InitDisplay ==
    /\ matrix = NoMatrix
    /\ steps = 0
    /\ \E kind \in {"ComplexVector", "ComplexMatrix"} :
       \E x \in OperandsOf(kind), overflow_checks \in BOOLEAN :
          call = [op |-> "none", kind |-> kind, x |-> x,
                  overflow_checks |-> overflow_checks]

VectorToString ==
    /\ call.op = "none"
    /\ call.kind = "ComplexVector"
    /\ call' = [call EXCEPT !.op = "to_string"] @@
               [result |-> ComplexVector_fmt(call.x, call.overflow_checks)]
    /\ UNCHANGED <<matrix, steps>>

MatrixToString ==
    /\ call.op = "none"
    /\ call.kind = "ComplexMatrix"
    /\ call' = [call EXCEPT !.op = "to_string"] @@
               [result |-> ComplexMatrix_fmt(call.x, call.overflow_checks)]
    /\ UNCHANGED <<matrix, steps>>

NextDisplay == VectorToString \/ MatrixToString

SpecDisplay == InitDisplay /\ [][NextDisplay]_vars

(***************************************************************************)
(* Properties.  Cell is the entry of a rows x columns table kept in        *)
(* row-major order; DotSum and RowDot are the sums of the definitions of   *)
(* the matrix product and of the matrix-vector product.                    *)
(***************************************************************************)
Cell(m, row, column) == m.elements[(row * m.columns) + column + 1]

\* sum over h = 0..n-1 of m1[j,h] * m2[h,k]
RECURSIVE DotSum(_, _, _, _, _)
DotSum(m1, m2, j, k, n) ==
    IF n = 0 THEN Complex(0, 0)
    ELSE Complex_add(DotSum(m1, m2, j, k, n - 1),
                     Complex_mul(Cell(m1, j, n - 1), Cell(m2, n - 1, k)))

\* sum over h = 0..n-1 of m[i,h] * v[h]
RECURSIVE RowDot(_, _, _, _)
RowDot(m, v, i, n) ==
    IF n = 0 THEN Complex(0, 0)
    ELSE Complex_add(RowDot(m, v, i, n - 1),
                     Complex_mul(Cell(m, i, n - 1), v[n]))

\* C1: the product of an (r, n) matrix and an (n, c) matrix succeeds, for
\* n = 0 too, and is the (r, c) matrix whose cell [j,k] is the sum over
\* h < n of m1[j,h] * m2[h,k].
C1_ProductCells ==
    (call.op = "mul" /\ call.self.columns = call.rhs.rows) =>
        /\ call.result.status = "ok"
        /\ dimensions(call.result.value) = <<call.self.rows, call.rhs.columns>>
        /\ Len(call.result.value.elements) = call.self.rows * call.rhs.columns
        /\ \A j \in 0..(call.self.rows - 1), k \in 0..(call.rhs.columns - 1) :
              Cell(call.result.value, j, k)
                  = DotSum(call.self, call.rhs, j, k, call.self.columns)

C1_Witness ==
    /\ call.op = "mul"
    /\ call.self.rows >= 2 /\ call.self.columns >= 2 /\ call.rhs.columns >= 2
    /\ call.self.columns = call.rhs.rows
    /\ call.result.status = "ok"
    /\ Cell(call.result.value, 1, 0) # Complex(0, 0)

\* C2: the product fails with ShapeMismatch whenever m1.columns # m2.rows
\* (also for operands of equal element count) and then yields no matrix;
\* it never fails when m1.columns = m2.rows.
C2_ProductShapeMismatch ==
    call.op = "mul" =>
        /\ call.self.columns # call.rhs.rows =>
              /\ call.result = Panic("ShapeMismatch")
              /\ matrix = NoMatrix
        /\ call.self.columns = call.rhs.rows => call.result.status = "ok"

C2_Witness ==
    /\ call.op = "mul"
    /\ call.self.columns # call.rhs.rows
    /\ Len(call.self.elements) = Len(call.rhs.elements)
    /\ Len(call.self.elements) > 0
    /\ call.result.status = "ShapeMismatch"

\* C3: for an (r, n) matrix m and a vector v of length n, the matrix-vector
\* product computed through the N x 1 matrix of v is the vector of length r
\* whose i-th entry is the row dot product, the sum over h < n of
\* m[i,h] * v[h].
C3_MatrixVectorRowDot ==
    (call.op = "product_matrix_vector" /\ call.self.columns = Len(call.vector)) =>
        /\ call.result.status = "ok"
        /\ Len(call.result.value) = call.self.rows
        /\ \A i \in 0..(call.self.rows - 1) :
              call.result.value[i + 1]
                  = RowDot(call.self, call.vector, i, call.self.columns)

C3_Witness ==
    /\ call.op = "product_matrix_vector"
    /\ call.self.rows >= 2 /\ call.self.columns >= 2
    /\ call.self.columns = Len(call.vector)
    /\ call.result.status = "ok"
    /\ call.result.value[2] # Complex(0, 0)

\* C4: after any sequence of new, from, add, scalar product, negation,
\* product, matrix-vector product and indexed write, every matrix that
\* exists has len(elements) = rows * columns.
C4_ShapeInvariant ==
    /\ matrix # NoMatrix =>
          Len(matrix.elements) = matrix.rows * matrix.columns
    /\ (call.op \in {"new", "from", "add", "mul_scalar", "neg", "mul", "index_mut"}
            /\ call.result.status = "ok") =>
          Len(call.result.value.elements)
              = call.result.value.rows * call.result.value.columns

C4_Witness ==
    /\ steps >= 2
    /\ call.op = "mul"
    /\ call.result.status = "ok"
    /\ matrix = call.result.value
    /\ matrix.rows # matrix.columns
    /\ Len(matrix.elements) >= 2

\* C5: new fails with ShapeMismatch exactly when len(elements) # rows *
\* columns; otherwise it returns the matrix of dimensions (rows, columns)
\* holding the given elements in the given order.
C5_NewShape ==
    call.op = "new" =>
        /\ call.result.status \in {"ok", "ShapeMismatch"}
        /\ call.result.status = "ShapeMismatch"
              <=> Len(call.vector) # call.rows * call.columns
        /\ call.result.status = "ok" =>
              /\ dimensions(call.result.value) = <<call.rows, call.columns>>
              /\ call.result.value.elements = call.vector
              /\ matrix = call.result.value

C5_Witness ==
    /\ call.op = "new"
    /\ call.rows = 1 /\ call.columns = 2 /\ Len(call.vector) = 2
    /\ call.result.status = "ok"

\* C6: an indexed read or write fails with OutOfRange exactly when
\* row >= rows or column >= columns; otherwise it accesses the element at
\* offset row * columns + column, which is below len(elements) and differs
\* for distinct in-range (row, column) pairs.
C6_IndexRange ==
    call.op \in {"index", "index_mut"} =>
        LET self == call.self
            inRange == call.row < self.rows /\ call.column < self.columns
        IN  /\ call.result.status = "OutOfRange" <=> ~inRange
            /\ inRange =>
                  /\ call.result.status = "ok"
                  /\ call.result.offset = (call.row * self.columns) + call.column
                  /\ call.result.offset < Len(self.elements)
                  /\ call.op = "index" =>
                        call.result.value = self.elements[call.result.offset + 1]
                  /\ call.op = "index_mut" =>
                        call.result.value.elements[call.result.offset + 1]
                            = call.value
                  /\ \A row \in 0..(self.rows - 1), column \in 0..(self.columns - 1) :
                        <<row, column>> # <<call.row, call.column>> =>
                            /\ index(self, row, column).status = "ok"
                            /\ index(self, row, column).offset # call.result.offset

C6_Witness ==
    /\ call.op = "index"
    /\ call.self.rows = 2 /\ call.self.columns = 2
    /\ call.row = 1 /\ call.column = 0
    /\ call.result.status = "ok"
    /\ call.result.offset = 2

\* C7: matrix addition fails with ShapeMismatch whenever the dimensions of
\* the operands differ (also for shapes of equal element count); for equal
\* shapes it returns the matrix of that shape whose cell [r,c] is
\* m1[r,c] + m2[r,c].
C7_AddShape ==
    call.op = "add" =>
        /\ dimensions(call.self) # dimensions(call.rhs) =>
              call.result = Panic("ShapeMismatch")
        /\ dimensions(call.self) = dimensions(call.rhs) =>
              /\ call.result.status = "ok"
              /\ dimensions(call.result.value) = dimensions(call.self)
              /\ Len(call.result.value.elements) = call.self.rows * call.self.columns
              /\ \A r \in 0..(call.self.rows - 1), c \in 0..(call.self.columns - 1) :
                    Cell(call.result.value, r, c)
                        = Complex(Cell(call.self, r, c).real + Cell(call.rhs, r, c).real,
                                  Cell(call.self, r, c).imaginary
                                      + Cell(call.rhs, r, c).imaginary)

C7_Witness ==
    /\ call.op = "add"
    /\ dimensions(call.self) # dimensions(call.rhs)
    /\ Len(call.self.elements) = Len(call.rhs.elements)
    /\ Len(call.self.elements) > 0
    /\ call.result.status = "ShapeMismatch"

\* C8: complex division fails with DivisionByZero exactly when both
\* components of the divisor are 0; for every other divisor, one with a
\* single zero component included, it returns a value.
C8_DivByZero ==
    call.op = "Complex_div" =>
        /\ call.result.status \in {"ok", "DivisionByZero"}
        /\ call.result.status = "DivisionByZero"
              <=> (call.b.real = 0 /\ call.b.imaginary = 0)
        /\ call.result.status = "ok" => "value" \in DOMAIN call.result

C8_Witness ==
    /\ call.op = "Complex_div"
    /\ call.b = Complex(0, 0)
    /\ call.result.status = "DivisionByZero"

\* C9: vector addition fails with DimensionMismatch whenever the lengths
\* differ, never truncating to the shorter operand; for equal lengths N it
\* returns the vector of length N whose i-th element is v1[i] + v2[i].
C9_VectorAdd ==
    call.op \in {"add_vectors", "add_vectors_N"} =>
        /\ Len(call.v1) # Len(call.v2) =>
              call.result = Panic("DimensionMismatch")
        /\ Len(call.v1) = Len(call.v2) =>
              /\ call.result.status = "ok"
              /\ Len(call.result.value) = Len(call.v1)
              /\ \A i \in 1..Len(call.v1) :
                    call.result.value[i]
                        = Complex(call.v1[i].real + call.v2[i].real,
                                  call.v1[i].imaginary + call.v2[i].imaginary)

C9_Witness ==
    /\ call.op = "add_vectors"
    /\ Len(call.v1) = 2 /\ Len(call.v2) = 3
    /\ call.result.status = "DimensionMismatch"

\* C10: for all complex (a,b) and (c,d), add returns (a+c, b+d) and
\* multiply returns (a*c - b*d, a*d + b*c); so (-1,3) + (9,-5) = (8,-2) and
\* (-1,3) * (9,-5) = (6,32).
C10_AddMul ==
    /\ Complex_add(Complex(0 - 1, 3), Complex(9, 0 - 5)) = Complex(8, 0 - 2)
    /\ Complex_mul(Complex(0 - 1, 3), Complex(9, 0 - 5)) = Complex(6, 32)
    /\ call.op = "Complex_add" =>
          call.result.value = Complex(call.a.real + call.b.real,
                                      call.a.imaginary + call.b.imaginary)
    /\ call.op = "Complex_mul" =>
          call.result.value
              = Complex((call.a.real * call.b.real)
                            - (call.a.imaginary * call.b.imaginary),
                        (call.a.real * call.b.imaginary)
                            + (call.a.imaginary * call.b.real))

C10_Witness ==
    /\ call.op = "Complex_mul"
    /\ call.a = Complex(1, 2) /\ call.b = Complex(2, 0 - 1)
    /\ call.result.value = Complex(4, 3)

\* The quotient q is the number n.
FractionIs(q, n) == q.den # 0 /\ q.num = n * q.den

\* C11: for all complex a and all b # (0,0), (a / b) * b = a, where a / b
\* has real part (r1*r2 + i1*i2)/(r2^2 + i2^2) and imaginary part
\* (r2*i1 - r1*i2)/(r2^2 + i2^2), in exact arithmetic.
C11_DivMulRoundTrip ==
    (call.op = "div_mul" /\ call.b # Complex(0, 0)) =>
        LET r1 == call.a.real
            i1 == call.a.imaginary
            r2 == call.b.real
            i2 == call.b.imaginary
        IN  /\ call.quotient.status = "ok"
            /\ call.quotient.value.real
                  = Fraction((r1 * r2) + (i1 * i2), (r2 * r2) + (i2 * i2))
            /\ call.quotient.value.imaginary
                  = Fraction((r2 * i1) - (r1 * i2), (r2 * r2) + (i2 * i2))
            /\ call.result.status = "ok"
            /\ FractionIs(call.result.value.real, r1)
            /\ FractionIs(call.result.value.imaginary, i1)

C11_Witness ==
    /\ call.op = "div_mul"
    /\ call.a = Complex(0 - 2, 1) /\ call.b = Complex(1, 2)
    /\ FractionIs(call.quotient.value.real, 0)
    /\ FractionIs(call.quotient.value.imaginary, 1)
    /\ FractionIs(call.result.value.real, 0 - 2)

\* The elements of an operand of the laws, as one sequence.
ElementsOf(kind, x) ==
    CASE kind = "Complex" -> <<x>>
      [] kind = "ComplexVector" -> x
      [] kind = "ComplexMatrix" -> x.elements

\* C12: adding the zero of its shape to a number, a vector or a matrix
\* succeeds and gives back the operand.
C12_AdditiveIdentity ==
    call.op = "add_zero" =>
        /\ call.result.status = "ok"
        /\ call.result.value = call.x

C12_Witness ==
    /\ call.op = "add_zero"
    /\ call.kind = "ComplexMatrix"
    /\ call.x.rows = 2 /\ call.x.columns = 2
    /\ call.x.elements[1] # Complex(0, 0)
    /\ call.result.status = "ok"
    /\ call.result.value = call.x

\* C13: multiplying a number, a vector or a matrix by the scalar (1,0)
\* gives back the operand.
C13_MultiplicativeIdentity ==
    call.op = "mul_one" =>
        /\ call.result.status = "ok"
        /\ call.result.value = call.x

C13_Witness ==
    /\ call.op = "mul_one"
    /\ call.kind = "ComplexVector"
    /\ Len(call.x) = 2
    /\ call.x[2].imaginary # 0
    /\ call.result.status = "ok"
    /\ call.result.value = call.x

\* C14: negation negates both parts of every element, negating twice
\* gives back the operand, the operand plus its negation is the zero of
\* its shape, and the negation of a number is the number times (-1,0).
C14_Negation ==
    call.op = "neg" =>
        LET before == ElementsOf(call.kind, call.x)
            after == ElementsOf(call.kind, call.negated)
        IN  /\ Len(after) = Len(before)
            /\ \A i \in 1..Len(before) :
                  after[i] = Complex(0 - before[i].real, 0 - before[i].imaginary)
            /\ call.twice = call.x
            /\ call.sum.status = "ok"
            /\ call.sum.value = ZeroOf(call.kind, call.x)
            /\ call.kind = "Complex" => call.times_minus_one = call.negated

C14_Witness ==
    /\ call.op = "neg"
    /\ call.kind = "ComplexMatrix"
    /\ call.x.rows = 2 /\ call.x.columns = 1
    /\ call.x.elements[2].imaginary # 0
    /\ call.twice = call.x
    /\ call.sum.status = "ok"
    /\ call.sum.value.elements = <<Complex(0, 0), Complex(0, 0)>>

RECURSIVE SumInts(_)
SumInts(terms) ==
    IF Len(terms) = 0 THEN 0
    ELSE terms[Len(terms)] + SumInts(SubSeq(terms, 1, Len(terms) - 1))

\* C15: the inner product of v1 and v2 is the conjugate of the inner
\* product of v2 and v1.
C15_ConjugateSymmetry ==
    call.op = "inner_product" =>
        /\ call.result.real = call.swapped.real
        /\ call.result.imaginary = 0 - call.swapped.imaginary

C15_Witness ==
    /\ call.op = "inner_product"
    /\ Len(call.v1) = 2
    /\ call.result.imaginary # 0
    /\ call.result.imaginary = 0 - call.swapped.imaginary

\* C16: the distance from v1 to v2 is the root of the squared norm of
\* v1 + (-v2), and it is the distance from v2 to v1.
C16_DistanceSymmetry ==
    call.op = "distance_to" =>
        LET N == Len(call.v1)
            square ==
                SumInts([i \in 1..N |->
                    ((call.v1[i].real - call.v2[i].real)
                        * (call.v1[i].real - call.v2[i].real))
                    + ((call.v1[i].imaginary - call.v2[i].imaginary)
                        * (call.v1[i].imaginary - call.v2[i].imaginary))])
        IN  /\ call.result = [sqrt_of |-> square]
            /\ call.result = call.swapped

C16_Witness ==
    /\ call.op = "distance_to"
    /\ Len(call.v1) = 2
    /\ call.v1 # call.v2
    /\ call.result # NaN
    /\ call.result # [sqrt_of |-> 0]
    /\ call.result = call.swapped

\* C17: the inner product of v with itself has imaginary part 0 and a
\* real part that is the sum of real^2 + imaginary^2 over the items and
\* not negative, so norm takes the root of a number that is not negative.
C17_SelfInnerProduct ==
    call.op = "inner_product" =>
        LET squares ==
                SumInts([i \in 1..Len(call.v1) |->
                    (call.v1[i].real * call.v1[i].real)
                    + (call.v1[i].imaginary * call.v1[i].imaginary)])
        IN  /\ call.self.imaginary = 0
            /\ call.self.real >= 0
            /\ call.self.real = squares
            /\ call.norm = [sqrt_of |-> squares]

C17_Witness ==
    /\ call.op = "inner_product"
    /\ Len(call.v1) = 2
    /\ call.v1[1].imaginary # 0
    /\ call.v1[2].real # 0
    /\ call.self.imaginary = 0
    /\ call.self.real > 0

C19_FromVector ==
    call.op = "from" =>
        LET N == Len(call.vector)
        IN  /\ call.result.status = "ok"
            /\ dimensions(call.result.value) = <<N, 1>>
            /\ \A i \in 0..(N - 1) :
                  /\ index(call.result.value, i, 0).status = "ok"
                  /\ index(call.result.value, i, 0).value = call.vector[i + 1]
            /\ ComplexMatrix_new(call.vector, N, 1) = Ok(call.result.value)
            /\ matrix = call.result.value

C19_Witness ==
    /\ call.op = "from"
    /\ Len(call.vector) = 3
    /\ call.vector[3] # call.vector[1]
    /\ dimensions(matrix) = <<3, 1>>
    /\ index(matrix, 2, 0).status = "ok"
    /\ index(matrix, 2, 0).value = call.vector[3]

\* The strings of a sequence, joined by a separator.
RECURSIVE Join(_, _)
Join(strings, separator) ==
    IF Len(strings) = 0 THEN <<>>
    ELSE IF Len(strings) = 1 THEN strings[1]
    ELSE Join(SubSeq(strings, 1, Len(strings) - 1), separator)
            \o separator \o strings[Len(strings)]

Bracketed(string) == <<"[">> \o string \o <<"]">>

\* The rendering of row r of a matrix: its elements, joined by ", ",
\* in brackets.
RenderedRow(m, r) ==
    Bracketed(Join([c \in 1..m.columns |-> Complex_fmt(Cell(m, r, c - 1))],
                   <<",", " ">>))

\* C20: rendering succeeds for every value; a vector of any length
\* renders as its elements joined by ", " in brackets, a matrix of any
\* shape as its rows, each its elements joined by ", " in brackets,
\* joined by "," in brackets.
C20_RenderingSucceeds ==
    call.op = "to_string" =>
        /\ call.result.status = "ok"
        /\ call.kind = "ComplexVector" =>
              call.result.value
                  = Bracketed(Join([i \in 1..Len(call.x) |-> Complex_fmt(call.x[i])],
                                   <<",", " ">>))
        /\ call.kind = "ComplexMatrix" =>
              call.result.value
                  = Bracketed(Join([r \in 1..call.x.rows |-> RenderedRow(call.x, r - 1)],
                                   <<",">>))

\* C21: an indexed write at an in-range (row, column) changes only that
\* cell: rows, columns and every other cell are as before, and a read at
\* the same (row, column) gives the written value; an indexed write out
\* of range fails with OutOfRange and leaves the matrix as it was.
C21_IndexedWriteFrame ==
    call.op = "index_mut" =>
        IF call.row < call.self.rows /\ call.column < call.self.columns
        THEN /\ call.result.status = "ok"
             /\ matrix = call.result.value
             /\ matrix.rows = call.self.rows
             /\ matrix.columns = call.self.columns
             /\ Len(matrix.elements) = Len(call.self.elements)
             /\ \A r \in 0..(call.self.rows - 1), c \in 0..(call.self.columns - 1) :
                   <<r, c>> # <<call.row, call.column>> =>
                       Cell(matrix, r, c) = Cell(call.self, r, c)
             /\ index(matrix, call.row, call.column).status = "ok"
             /\ index(matrix, call.row, call.column).value = call.value
        ELSE /\ call.result.status = "OutOfRange"
             /\ matrix = call.self

C21_Witness ==
    /\ call.op = "index_mut"
    /\ call.self.rows = 2 /\ call.self.columns = 2
    /\ call.row = 0 /\ call.column = 1
    /\ Cell(call.self, 0, 1) # call.value
    /\ call.result.status = "ok"
    /\ Cell(matrix, 0, 1) = call.value
    /\ Cell(matrix, 1, 0) = Cell(call.self, 1, 0)

\* C22: the matrix-vector product fails with ShapeMismatch whenever the
\* length of the vector is not the number of columns of the matrix, and
\* whenever it succeeds the vector it returns has as many items as the
\* matrix has rows.
C22_MatrixVectorShape ==
    call.op = "product_matrix_vector" =>
        /\ Len(call.vector) # call.self.columns =>
              call.result.status = "ShapeMismatch"
        /\ call.result.status = "ok" =>
              Len(call.result.value) = call.self.rows

C22_Witness ==
    /\ call.op = "product_matrix_vector"
    /\ call.self.rows = 2 /\ call.self.columns = 1
    /\ Len(call.vector) = 2
    /\ call.result.status = "ShapeMismatch"
    /\ matrix = NoMatrix

\* C23: for matrices A of shape (p,q), B of shape (q,r) and C of shape
\* (r,s), the products (A * B) * C and A * (B * C) both succeed and are
\* equal, a matrix of shape (p,s).
C23_ProductAssociative ==
    (call.op = "mul_mul" /\ call.A.columns = call.B.rows
                         /\ call.B.columns = call.C.rows) =>
        /\ call.left.status = "ok"
        /\ call.right.status = "ok"
        /\ call.left.value = call.right.value
        /\ dimensions(call.left.value) = <<call.A.rows, call.C.columns>>

C23_Witness ==
    /\ call.op = "mul_mul"
    /\ dimensions(call.A) = <<2, 2>>
    /\ dimensions(call.B) = <<2, 2>>
    /\ dimensions(call.C) = <<2, 1>>
    /\ call.A # call.B
    /\ call.left.status = "ok"
    /\ call.left.value = call.right.value
    /\ Cell(call.left.value, 0, 0) # Complex(0, 0)
    /\ Cell(call.left.value, 1, 0) # Cell(call.left.value, 0, 0)

=============================================================================
